---- MODULE Spec2Model ----
(***************************************************************************)
(* Model of thunder-register's displacement transforms                     *)
(* (registration/transforms.py) and of SimpleITK_Registration.fit          *)
(* (registration/algorithms/simpleitk_registration.py).                    *)
(*                                                                         *)
(* An ndarray is a record [shape, data]: shape is the tuple of axis sizes, *)
(* data the elements in row-major (C) order.  Indices are 0-based as in    *)
(* the source; a sequence position is the index plus one.                  *)
(*                                                                         *)
(* The Fourier-domain product of Displacement.compute is modelled by what  *)
(* it equals in exact arithmetic, the circular cross-correlation; floating *)
(* point rounding is outside the model.                                    *)
(*                                                                         *)
(* Four specifications share the variables:                                *)
(*   SpecEstimate  two arrays, then Displacement.compute or                *)
(*                 LocalDisplacement.compute on them;                      *)
(*   SpecShift     a reference array and its circular shift, then          *)
(*                 Displacement.compute;                                   *)
(*   SpecApply     an array and a transformation, then apply;              *)
(*   SpecFit       images and a reference, then fit.                       *)
(***************************************************************************)
EXTENDS Integers, Sequences, FiniteSets

VARIABLES
    pc,         \* which call has returned
    a, b,       \* the arrays handed to compute
    shiftBy,    \* the circular shift that produced a from b (SpecShift)
    axis,       \* the axis handed to LocalDisplacement.compute
    inds,       \* the raw peak index of the last Displacement.compute (line 75)
    t,          \* the transformation object computed or applied, or the error raised
    im,         \* the caller's array handed to apply, as it is now
    im0,        \* what the caller's array held before apply was called
    ret,        \* the array apply returned
    images, reference,   \* the arguments of fit
    model       \* the mapping of the RegistrationModel fit returned

vars == <<pc, a, b, shiftBy, axis, inds, t, im, im0, ret, images, reference, model>>

\* Largest size of one axis of an input array.
MaxDim == 3
\* Largest number of elements of an input array.
MaxCells == 4
\* Largest element value of an input array.
MaxVal == 1
\* Largest magnitude of one component of a constructed displacement.
MaxShift == 1
\* Largest length of a rank-1 reference array that is shifted circularly.
MaxLen == 4
\* Largest number of images handed to fit.
MaxImages == 3

None == [class |-> "None", delta |-> <<>>, axis |-> 0]

NoArray == [shape |-> <<>>, data |-> <<>>]

-----------------------------------------------------------------------------
(* ndarray helpers *)

RECURSIVE Prod(_)
Prod(s) == IF s = <<>> THEN 1 ELSE Head(s) * Prod(Tail(s))

\* f[1] + ... + f[n].
RECURSIVE SumTo(_, _)
SumTo(f, n) == IF n = 0 THEN 0 ELSE f[n] + SumTo(f, n - 1)

Abs(x) == IF x < 0 THEN -x ELSE x

\* The sequence f with its elements computed once.
Computed(f) == f \o <<>>

Min(x, y) == IF x < y THEN x ELSE y

Rank(x) == Len(x.shape)

Size(x) == Len(x.data)

\* Row-major stride of axis i (1-based position in the shape tuple).
Stride(s, i) == IF i = Len(s) THEN 1 ELSE s[i + 1] * Prod(SubSeq(s, i + 2, Len(s)))

\* numpy.unravel_index: flat index k -> index tuple.
unravel_index(k, s) == [i \in 1..Len(s) |-> (k \div Stride(s, i)) % s[i]]

\* Index tuple -> flat index.
Ravel(idx, s) == SumTo([i \in 1..Len(s) |-> idx[i] * Stride(s, i)], Len(s))

At(x, idx) == x.data[Ravel(idx, x.shape) + 1]

\* All index tuples of shape s, as flat indices.
Flat(s) == 0..(Prod(s) - 1)

\* Shapes of rank 1 and rank 2 within the bounds.
Shapes ==
    {<<n>> : n \in 1..Min(MaxDim, MaxCells)}
    \cup {s \in {<<m, n>> : m \in 1..MaxDim, n \in 1..MaxDim} : s[1] * s[2] <= MaxCells}

Vals == 0..MaxVal

SignedVals == (-MaxVal)..MaxVal

Arrays(s, V) == {[shape |-> s, data |-> d] : d \in [1..Prod(s) -> V]}

\* An array of shape s holding v everywhere.
Full(s, v) == [shape |-> s, data |-> [k \in 1..Prod(s) |-> v]]

-----------------------------------------------------------------------------
(* Displacement (transforms.py 14-85) *)

Displacement(delta) == [class |-> "Displacement", delta |-> delta, axis |-> 0]

\* The error numpy raises when the in-place product of line 71 cannot
\* broadcast its right operand into the left one.
ValueError == [class |-> "ValueError", delta |-> <<>>, axis |-> 0]

\* Shape of numpy.fft.rfftn(x) for x of shape s: the last axis keeps the
\* non-negative frequencies only.
rfftnShape(s) == [i \in 1..Len(s) |-> IF i = Len(s) THEN (s[i] \div 2) + 1 ELSE s[i]]

\* f *= g (line 71) is defined when g broadcasts to the shape of f: g has no
\* more axes than f and, aligned at the last axis, every axis of g has the
\* size of f's axis or size 1.
Broadcastable(g, f) ==
    /\ Len(g) <= Len(f)
    /\ \A i \in 1..Len(g) : g[i] = f[i + Len(f) - Len(g)] \/ g[i] = 1

SpectraMultiply(sa, sb) == Broadcastable(rfftnShape(sb), rfftnShape(sa))

\* One row of b along the last axis, as the length-n signal whose spectrum
\* the inverse transform of size n reads out of rfftn(b): b itself when the
\* sizes agree; a single bin broadcast to every frequency is an impulse; a
\* length-2 (length-3) row read on 3 (2) points is given up to a positive
\* factor, which leaves the peak where it is.  Two sizes above 3 that share
\* a spectrum length (4 and 5, ...) need an axis of 5, beyond the inputs.
RowSignal(row, n, j) ==
    LET q == Len(row) IN
    CASE q = n -> row[j + 1]
      [] q = 1 -> IF j = 0 THEN row[1] ELSE 0
      [] q = 2 /\ n = 3 -> IF j = 0 THEN 3 * row[1] - row[2] ELSE 2 * row[2]
      [] q = 3 /\ n = 2 -> IF j = 0 THEN 4 * row[1] + row[2] + row[3]
                                     ELSE 3 * (row[2] + row[3])

\* b as the product of line 71 sees it on the grid of a: equal to b when the
\* shapes agree, otherwise what broadcasting the spectrum of b amounts to.
Operand(y, sa) ==
    LET r  == Len(sa)
        sb == [i \in 1..(r - Rank(y)) |-> 1] \o y.shape
        q  == sb[r]
        Val(idx) ==
            IF \E i \in 1..(r - 1) : sb[i] # sa[i] /\ idx[i] # 0
            THEN 0
            ELSE LET lead == [i \in 1..(r - 1) |-> IF sb[i] = sa[i] THEN idx[i] ELSE 0]
                     base == SumTo([i \in 1..(r - 1) |-> lead[i] * Stride(sb, i)], r - 1)
                     row  == [j \in 1..q |-> y.data[base + j]]
                 IN  RowSignal(row, sa[r], idx[r])
    IN  [shape |-> sa,
         data |-> Computed([k \in 1..Prod(sa) |-> Val(unravel_index(k - 1, sa))])]

\* Faulty variant of CrossCorrelation: the conjugate taken of the spectrum of a
\* instead of b, which reverses the lag.
CrossCorrelationReversed(x, y) ==
    LET s == x.shape
        e == Operand(y, s)
        at == Computed([k \in 1..Prod(s) |-> Computed(unravel_index(k - 1, s))])
        Term(k, m) ==
            At(x, [i \in 1..Len(s) |-> (at[m][i] - at[k][i]) % s[i]]) * e.data[m]
    IN  Computed([k \in 1..Prod(s) |->
            Abs(SumTo([m \in 1..Prod(s) |-> Term(k, m)], Prod(s)))])

\* Lines 69-72: c = abs(irfftn(rfftn(a) * conj(rfftn(b)), s)), which is the
\* magnitude of the circular cross-correlation
\*     c[k] = | sum over m of a[(m + k) mod s] * b[m] |.
CrossCorrelation(x, y) ==
    LET s == x.shape
        e == Operand(y, s)
        at == Computed([k \in 1..Prod(s) |-> Computed(unravel_index(k - 1, s))])
        Term(k, m) ==
            At(x, [i \in 1..Len(s) |-> (at[k][i] + at[m][i]) % s[i]]) * e.data[m]
    IN  Computed([k \in 1..Prod(s) |->
            Abs(SumTo([m \in 1..Prod(s) |-> Term(k, m)], Prod(s)))])

\* Faulty variant of argmax: the last occurrence of the maximum.
argmaxLast(c) ==
    CHOOSE k \in 0..(Len(c) - 1) :
        /\ \A j \in 0..(Len(c) - 1) : c[j + 1] <= c[k + 1]
        /\ \A j \in (k + 1)..(Len(c) - 1) : c[j + 1] < c[k + 1]

\* numpy.argmax: flat index of the first occurrence of the maximum.
argmax(c) ==
    CHOOSE k \in 0..(Len(c) - 1) :
        /\ \A j \in 0..(Len(c) - 1) : c[j + 1] <= c[k + 1]
        /\ \A j \in 0..(k - 1) : c[j + 1] < c[k + 1]

\* Line 75.
Peak(x, y) == unravel_index(argmax(CrossCorrelation(x, y)), x.shape)

\* Faulty variant of adjusted: half the size wraps too.
adjustedAtHalf(d, n) == IF d >= n \div 2 THEN d - n ELSE d

\* Line 80: fix displacements that are greater than half the total size.
adjusted(d, n) == IF d > n \div 2 THEN d - n ELSE d

\* Displacement.compute(a, b), lines 69-82: the raw peak index of line 75
\* and what the call returns or raises.
ComputeSteps(x, y) ==
    IF ~SpectraMultiply(x.shape, y.shape)
    THEN [inds |-> <<>>, result |-> ValueError]
    ELSE LET peak == Peak(x, y)
         IN  [inds |-> peak,
              result |-> Displacement([i \in 1..Rank(x) |-> adjusted(peak[i], x.shape[i])])]

Displacement_compute(x, y) == ComputeSteps(x, y).result

-----------------------------------------------------------------------------
(* numpy.rollaxis and iteration over the leading axis *)

RemoveAt(q, p) == [i \in 1..(Len(q) - 1) |-> IF i < p THEN q[i] ELSE q[i + 1]]

InsertAt(q, p, v) ==
    [i \in 1..(Len(q) + 1) |-> IF i < p THEN q[i] ELSE IF i = p THEN v ELSE q[i - 1]]

\* numpy.transpose(x, perm), axes 0-based: axis i of the result is axis
\* perm[i + 1] of x.
Transpose(x, perm) ==
    LET s == [i \in 1..Rank(x) |-> x.shape[perm[i] + 1]]
        Src(idx) == [j \in 1..Rank(x) |->
                        idx[CHOOSE i \in 1..Rank(x) : perm[i] + 1 = j]]
    IN  [shape |-> s,
         data |-> Computed([k \in 1..Prod(s) |-> At(x, Src(unravel_index(k - 1, s)))])]

\* numpy.rollaxis(x, ax, start): move axis ax so that it lies before the
\* axis that was at position start.
rollaxis(x, ax, start) ==
    LET rest == RemoveAt([i \in 1..Rank(x) |-> i - 1], ax + 1)
        st   == IF start > ax THEN start - 1 ELSE start
    IN  Transpose(x, InsertAt(rest, st + 1, ax))

\* x[i]: the i-th subarray along the leading axis.
Sub(x, i) ==
    LET s == Tail(x.shape)
    IN  [shape |-> s, data |-> SubSeq(x.data, i * Prod(s) + 1, (i + 1) * Prod(s))]

-----------------------------------------------------------------------------
(* LocalDisplacement (transforms.py 87-142) *)

LocalDisplacement(delta, ax) == [class |-> "LocalDisplacement", delta |-> delta, axis |-> ax]

\* Line 119: zip stops at the shorter of the two rolled arrays.
ZipLen(x, y, ax) == Min(x.shape[ax + 1], y.shape[ax + 1])

\* Faulty variant of LocalDisplacement_compute: the planes taken along the leading
\* axis whatever axis is asked for.
LocalDisplacement_computeLeadingAxis(x, y, ax) ==
    LET n  == ZipLen(x, y, 0)
        each == Computed([i \in 1..n |-> Displacement_compute(Sub(x, i - 1), Sub(y, i - 1))])
    IN  IF \E i \in 1..n : each[i].class = "ValueError"
        THEN ValueError
        ELSE LocalDisplacement([i \in 1..n |-> each[i].delta], ax)

\* LocalDisplacement.compute(a, b, axis), lines 118-121.  An error raised by
\* Displacement.compute for a pair of planes ends the loop and the call.
LocalDisplacement_compute(x, y, ax) ==
    LET ra == rollaxis(x, ax, 0)
        rb == rollaxis(y, ax, 0)
        n  == ZipLen(x, y, ax)
        each == Computed([i \in 1..n |-> Displacement_compute(Sub(ra, i - 1), Sub(rb, i - 1))])
    IN  IF \E i \in 1..n : each[i].class = "ValueError"
        THEN ValueError
        ELSE LocalDisplacement([i \in 1..n |-> each[i].delta], ax)

-----------------------------------------------------------------------------
(* Estimation: a caller holds two arrays and calls one of the two compute   *)
(* methods on them.                                                        *)

\* The second array has the shape of the first, or is any constant array.
InitEstimate ==
    /\ pc = "args"
    /\ \E s \in Shapes : a \in Arrays(s, Vals)
    /\ b \in Arrays(a.shape, Vals) \cup {Full(s, v) : s \in Shapes, v \in Vals}
    /\ shiftBy = <<>>
    /\ axis = 0
    /\ inds = <<>>
    /\ t = None
    /\ im = NoArray /\ im0 = NoArray /\ ret = NoArray
    /\ images = <<>> /\ reference = 0 /\ model = <<>>

CallDisplacementCompute ==
    /\ pc = "args"
    /\ LET call == ComputeSteps(a, b)
       IN  t' = call.result /\ inds' = call.inds
    /\ pc' = "Displacement.compute"
    /\ UNCHANGED <<a, b, shiftBy, axis, im, im0, ret, images, reference, model>>

\* The planes of a rank-2 array are rank-1 arrays; both arguments have rank 2.
CallLocalDisplacementCompute ==
    /\ pc = "args"
    /\ Rank(a) = 2 /\ Rank(b) = 2
    /\ \E ax \in 0..1 :
        /\ axis' = ax
        /\ t' = LocalDisplacement_compute(a, b, ax)
    /\ pc' = "LocalDisplacement.compute"
    /\ UNCHANGED <<a, b, shiftBy, inds, im, im0, ret, images, reference, model>>

NextEstimate == CallDisplacementCompute \/ CallLocalDisplacementCompute

SpecEstimate == InitEstimate /\ [][NextEstimate]_vars

-----------------------------------------------------------------------------
(* Shift recovery: a reference array b is shifted circularly by d, and the  *)
(* shifted array is registered against the reference.                      *)

\* numpy.roll(x, sh) over all axes: element i of the result is element
\* (i - sh) mod s of x.
roll(x, sh) ==
    LET s == x.shape
        Src(idx) == [i \in 1..Len(s) |-> (idx[i] - sh[i]) % s[i]]
    IN  [shape |-> s,
         data |-> Computed([k \in 1..Prod(s) |-> At(x, Src(unravel_index(k - 1, s)))])]

ShiftShapes == {<<n>> : n \in 1..MaxLen} \cup Shapes

\* Integer vectors with |sh[i]| < s[i] / 2 on every axis.
HalfRange(s) ==
    {sh \in [1..Len(s) -> (-(MaxLen + MaxDim))..(MaxLen + MaxDim)] :
        \A i \in 1..Len(s) : 2 * Abs(sh[i]) < s[i]}

InitShift ==
    /\ pc = "args"
    /\ \E s \in ShiftShapes : b \in Arrays(s, SignedVals)
    /\ shiftBy \in HalfRange(b.shape)
    /\ a = roll(b, shiftBy)
    /\ axis = 0
    /\ inds = <<>>
    /\ t = None
    /\ im = NoArray /\ im0 = NoArray /\ ret = NoArray
    /\ images = <<>> /\ reference = 0 /\ model = <<>>

SpecShift == InitShift /\ [][CallDisplacementCompute]_vars

-----------------------------------------------------------------------------
(* Application of a transformation to a caller's array *)

Clamp(x, lo, hi) == IF x < lo THEN lo ELSE IF x > hi THEN hi ELSE x

\* Faulty variant of shift: mode='wrap', what leaves the array comes back in at the
\* other end.
shiftWrap(x, sh) ==
    LET s == x.shape
        Src(idx) == [i \in 1..Len(s) |-> (idx[i] - sh[i]) % s[i]]
    IN  [shape |-> s,
         data |-> Computed([k \in 1..Prod(s) |-> At(x, Src(unravel_index(k - 1, s)))])]

\* scipy.ndimage.shift(x, sh, mode='nearest') for integral sh: element i of
\* the result is element i - sh of x, the coordinate taken to the nearest
\* valid one where it leaves the array (edge replication).
shift(x, sh) ==
    LET s == x.shape
        Src(idx) == [i \in 1..Len(s) |-> Clamp(idx[i] - sh[i], 0, s[i] - 1)]
    IN  [shape |-> s,
         data |-> Computed([k \in 1..Prod(s) |-> At(x, Src(unravel_index(k - 1, s)))])]

\* Line 46: map(lambda x: -x, self.delta).
Negated(delta) == [i \in 1..Len(delta) |-> -delta[i]]

\* Faulty variant of Displacement_apply: the displacement is not negated.
Displacement_applyNotNegated(self, x) == shift(x, self.delta)

\* Displacement.apply(im), lines 45-46: a new array is returned.
Displacement_apply(self, x) == shift(x, Negated(self.delta))

\* LocalDisplacement.apply(im), lines 134-139: the array as it is after the
\* loop, in the original axis order.  rollaxis returns views, so the planes
\* assigned in line 137 are written into the buffer of the array passed in.
LocalDisplacement_apply(self, x) ==
    LET r == rollaxis(x, self.axis, 0)
        n == r.shape[1]
        plane == Computed([i \in 1..n |-> shift(Sub(r, i - 1), Negated(self.delta[i]))])
        m == Prod(Tail(r.shape))
        after == [shape |-> r.shape,
                  data |-> Computed([k \in 1..Prod(r.shape) |->
                               plane[((k - 1) \div m) + 1].data[((k - 1) % m) + 1]])]
    IN  rollaxis(after, 0, self.axis + 1)

Shifts == (-MaxShift)..MaxShift

\* The transformation has the dimensions the data model requires of it:
\* one component per axis, or one vector of rank - 1 components per plane.
InitApply ==
    /\ pc = "args"
    /\ \E s \in Shapes : im \in Arrays(s, Vals)
    /\ im0 = im
    /\ \/ \E delta \in [1..Rank(im) -> Shifts] : t = Displacement(delta)
       \/ /\ Rank(im) = 2
          /\ \E ax \in 0..1 : \E delta \in [1..im.shape[ax + 1] -> [1..1 -> Shifts]] :
                t = LocalDisplacement(delta, ax)
    /\ ret = NoArray
    /\ a = NoArray /\ b = NoArray /\ shiftBy = <<>> /\ axis = 0 /\ inds = <<>>
    /\ images = <<>> /\ reference = 0 /\ model = <<>>

CallDisplacementApply ==
    /\ pc = "args"
    /\ t.class = "Displacement"
    /\ ret' = Displacement_apply(t, im)
    /\ pc' = "Displacement.apply"
    /\ UNCHANGED <<a, b, shiftBy, axis, inds, t, im, im0, images, reference, model>>

\* The caller applies the opposite displacement to what the first call returned.
CallInverseApply ==
    /\ pc = "Displacement.apply"
    /\ ret' = Displacement_apply(Displacement(Negated(t.delta)), ret)
    /\ pc' = "inverse applied"
    /\ UNCHANGED <<a, b, shiftBy, axis, inds, t, im, im0, images, reference, model>>

\* The returned array is a view of the caller's array, which holds the
\* shifted planes from then on.
CallLocalDisplacementApply ==
    /\ pc = "args"
    /\ t.class = "LocalDisplacement"
    /\ ret' = LocalDisplacement_apply(t, im)
    /\ im' = ret'
    /\ pc' = "LocalDisplacement.apply"
    /\ UNCHANGED <<a, b, shiftBy, axis, inds, t, im0, images, reference, model>>

NextApply == CallDisplacementApply \/ CallInverseApply \/ CallLocalDisplacementApply

SpecApply == InitApply /\ [][NextApply]_vars

-----------------------------------------------------------------------------
(* SimpleITK_Registration.fit (simpleitk_registration.py 25-55) *)

\* Images and the reference are opaque to fit; each stands for one array.
ImageIds == 1..MaxImages

\* transform_estimator.Execute(fixed, moving), transforms.py 187: the
\* optimiser's transform is an opaque handle that depends on both arguments.
Execute(fixed, moving) == <<"transform", fixed, moving>>

\* SimpleITKTransformation.compute(a, b, transform_estimator), transforms.py
\* 185-188: a is the moving image, b the fixed one.
SimpleITKTransformation_compute(x, y) == Execute(y, x)

\* Faulty variant of Get: the reference registered against the image.
GetSwapped(image, ref) == SimpleITKTransformation_compute(ref, image)

\* _get(image, reference), lines 25-26.
Get(image, ref) == SimpleITKTransformation_compute(image, ref)

\* func(item), lines 46-48: the record's key with its transformation.
func(item) == <<item[1], Get(item[2], reference)>>

\* check_images: the images as keyed records; record i has the key (i,).
check_images(imgs) == [i \in 1..Len(imgs) |-> <<<<i - 1>>, imgs[i]>>]

\* images.map(func, with_keys=True): func applied to every (key, image).
MapWithKeys(recs) == [i \in 1..Len(recs) |-> func(recs[i])]

\* toarray(): the records as one array with axes of size 1 removed, so a
\* single record comes back as the record itself, not as a list of one.
toarray(recs) == IF Len(recs) = 1 THEN recs[1] ELSE recs

\* Lines 51-52.
Wrapped(n, transformations) == IF n = 1 THEN <<transformations>> ELSE transformations

\* dict(pairs): the mapping holding, for every key, the value of the last
\* pair with that key; fails on an element that is not a pair.
dict(pairs) ==
    IF \E i \in 1..Len(pairs) : Len(pairs[i]) # 2
    THEN <<"TypeError">>
    ELSE [k \in {pairs[i][1] : i \in 1..Len(pairs)} |->
            LET last == CHOOSE i \in 1..Len(pairs) :
                            /\ pairs[i][1] = k
                            /\ \A j \in (i + 1)..Len(pairs) : pairs[j][1] # k
            IN  pairs[last][2]]

\* fit(images, reference), lines 43-55: the mapping of the model returned.
fit(imgs) ==
    LET recs == check_images(imgs)
        transformations == toarray(MapWithKeys(recs))
    IN  dict(Wrapped(Len(recs), transformations))

InitFit ==
    /\ pc = "args"
    /\ \E n \in 1..MaxImages : images \in [1..n -> ImageIds]
    /\ reference \in ImageIds
    /\ model = <<>>
    /\ a = NoArray /\ b = NoArray /\ shiftBy = <<>> /\ axis = 0 /\ inds = <<>>
    /\ t = None
    /\ im = NoArray /\ im0 = NoArray /\ ret = NoArray

CallFit ==
    /\ pc = "args"
    /\ model' = fit(images)
    /\ pc' = "fit"
    /\ UNCHANGED <<a, b, shiftBy, axis, inds, t, im, im0, ret, images, reference>>

SpecFit == InitFit /\ [][CallFit]_vars

-----------------------------------------------------------------------------
(* Properties *)

\* Element access written out for ranks 1 and 2, independently of the
\* index helpers of the model: x[i] and x[i, j].
Elem1(x, i) == x.data[i + 1]

Elem2(x, i, j) == x.data[i * x.shape[2] + j + 1]

Zeros(s) == [i \in 1..Len(s) |-> 0]

AllZero(x) == \A k \in 1..Size(x) : x.data[k] = 0

Minus(x) == [shape |-> x.shape, data |-> [k \in 1..Size(x) |-> -x.data[k]]]

\* No circular shift of x other than the identity gives x or -x back: x is
\* neither constant (all-zero included) nor periodic or anti-periodic along
\* its axes.
Aperiodic(x) ==
    \A k \in Flat(x.shape) \ {0} :
        LET r == roll(x, unravel_index(k, x.shape))
        IN  r # x /\ r # Minus(x)

\* C1 as claimed: whatever the reference b, registering b shifted circularly
\* by d (|d_i| < s_i / 2) against b returns delta = d.
C1_ShiftRecovered ==
    pc = "Displacement.compute" => t = Displacement(shiftBy)

\* C1 amended: when no circular shift of b other than the identity gives b
\* or -b, registering b shifted circularly by d (|d_i| < s_i / 2) against b
\* returns delta = d, one component per axis in axis order, sign included.
C1_ShiftRecoveredAperiodic ==
    (pc = "Displacement.compute" /\ Aperiodic(b)) => t = Displacement(shiftBy)

\* A rank-2 aperiodic reference shifted backwards along an axis, recovered.
C1_Witness ==
    /\ pc = "Displacement.compute"
    /\ Aperiodic(b)
    /\ Rank(b) = 2
    /\ \E i \in 1..2 : shiftBy[i] < 0
    /\ \E k \in 1..Size(b) : b.data[k] < 0
    /\ t = Displacement(shiftBy)

\* C2 as claimed: Displacement.compute on arrays of different shapes fails
\* with an error and never returns a Displacement.
C2_MismatchRaises ==
    (pc = "Displacement.compute" /\ a.shape # b.shape) => t = ValueError

\* C3 as claimed: LocalDisplacement.apply leaves the caller's array as it was.
C3_CallerArrayUnchanged ==
    pc = "LocalDisplacement.apply" => im = im0

\* C4: every component of the delta Displacement.compute returns is the raw
\* peak index d of its axis of size n, less n when d > n \div 2 and unchanged
\* otherwise; d = n \div 2 is reported as it is, not negative.
C4_WrapLaw ==
    (pc = "Displacement.compute" /\ t.class = "Displacement") =>
        /\ Len(t.delta) = Rank(a) /\ Len(inds) = Rank(a)
        /\ \A i \in 1..Rank(a) :
            LET n == a.shape[i] IN
            /\ inds[i] \in 0..(n - 1)
            /\ inds[i] > n \div 2 => t.delta[i] = inds[i] - n
            /\ inds[i] <= n \div 2 => t.delta[i] = inds[i]
            /\ inds[i] = n \div 2 => t.delta[i] >= 0

\* A peak beyond half the axis on one axis of a rank-2 array, reported negative.
C4_Witness ==
    /\ pc = "Displacement.compute" /\ t.class = "Displacement"
    /\ Rank(a) = 2
    /\ \E i \in 1..2 : inds[i] > a.shape[i] \div 2 /\ t.delta[i] = inds[i] - a.shape[i]

\* The flat (row-major) position of the raw peak index, ranks 1 and 2.
PeakPosition == IF Rank(a) = 1 THEN inds[1] ELSE inds[1] * a.shape[2] + inds[2]

\* C5: on two all-zero arrays of one shape Displacement.compute returns the
\* zero displacement and no error; whenever several positions of the
\* correlation surface hold its maximum, the peak is the first of them in
\* row-major order.
C5_FirstMaximum ==
    (pc = "Displacement.compute" /\ a.shape = b.shape) =>
        LET c == CrossCorrelation(a, b) IN
        /\ t.class = "Displacement"
        /\ (AllZero(a) /\ AllZero(b)) => t = Displacement(Zeros(a.shape))
        /\ \A k \in 1..Len(c) : c[k] <= c[PeakPosition + 1]
        /\ \A k \in 1..PeakPosition : c[k] < c[PeakPosition + 1]

\* Two positions of a rank-2 surface tie for a non-zero maximum.
C5_Witness ==
    /\ pc = "Displacement.compute" /\ a.shape = b.shape /\ Rank(a) = 2
    /\ LET c == CrossCorrelation(a, b) IN
        /\ c[PeakPosition + 1] > 0
        /\ \E k \in (PeakPosition + 2)..Len(c) : c[k] = c[PeakPosition + 1]

\* C6 as claimed: LocalDisplacement.compute on arrays of different shapes
\* fails with an error and returns no LocalDisplacement.
C6_LocalMismatchRaises ==
    (pc = "LocalDisplacement.compute" /\ a.shape # b.shape) => t = ValueError

\* Plane i of a rank-2 array along axis ax, written out: row i for axis 0,
\* column i for axis 1.
PlaneOf(x, ax, i) ==
    IF ax = 0
    THEN [shape |-> <<x.shape[2]>>, data |-> [j \in 1..x.shape[2] |-> Elem2(x, i, j - 1)]]
    ELSE [shape |-> <<x.shape[1]>>, data |-> [j \in 1..x.shape[1] |-> Elem2(x, j - 1, i)]]

\* C7: for a and b of one shape LocalDisplacement.compute(a, b, axis) returns
\* size(a, axis) entries; entry i is the delta Displacement.compute returns
\* for plane i of a and plane i of b, planes in ascending order along axis,
\* and has ndim(a) - 1 components.
C7_PerPlane ==
    (pc = "LocalDisplacement.compute" /\ a.shape = b.shape) =>
        /\ t.class = "LocalDisplacement" /\ t.axis = axis
        /\ Len(t.delta) = a.shape[axis + 1]
        /\ \A i \in 1..Len(t.delta) :
            /\ t.delta[i] = Displacement_compute(PlaneOf(a, axis, i - 1),
                                                 PlaneOf(b, axis, i - 1)).delta
            /\ Len(t.delta[i]) = Rank(a) - 1

\* Planes along axis 1 of a 2 x 2 pair, the two planes displaced differently.
C7_Witness ==
    /\ pc = "LocalDisplacement.compute" /\ a.shape = b.shape
    /\ axis = 1 /\ a.shape = <<2, 2>>
    /\ t.class = "LocalDisplacement"
    /\ t.delta[1] # t.delta[2]

\* C8 as claimed: applying Displacement(delta) and then Displacement(-delta)
\* gives every element of the image back.
C8_RoundTrip ==
    pc = "inverse applied" => ret = im0

\* Index i of an axis of size n is in range.
InAxis(i, n) == 0 <= i /\ i < n

\* C8 amended: applying Displacement(delta) and then Displacement(-delta)
\* gives the shape back and every element back whose index less delta is
\* inside the array on every axis; the other elements, within |delta| of a
\* border, hold replicated values.
C8_RoundTripInterior ==
    pc = "inverse applied" =>
        /\ ret.shape = im0.shape
        /\ Rank(im0) = 1 =>
            \A i \in 0..(im0.shape[1] - 1) :
                InAxis(i - t.delta[1], im0.shape[1]) => Elem1(ret, i) = Elem1(im0, i)
        /\ Rank(im0) = 2 =>
            \A i \in 0..(im0.shape[1] - 1) : \A j \in 0..(im0.shape[2] - 1) :
                (InAxis(i - t.delta[1], im0.shape[1]) /\ InAxis(j - t.delta[2], im0.shape[2]))
                    => Elem2(ret, i, j) = Elem2(im0, i, j)

\* A round trip that restores some elements of the image and loses others.
C8_Witness ==
    /\ pc = "inverse applied"
    /\ Rank(im0) = 1
    /\ t.delta[1] # 0
    /\ \E i \in 0..(im0.shape[1] - 1) : InAxis(i - t.delta[1], im0.shape[1])
    /\ ret # im0

\* The transformation fit must store for image i: the transform estimated
\* with the reference as the fixed image and image i as the moving one.
Estimated(i) == Execute(reference, images[i])

C10_ShiftByNegatedDelta ==
    pc = "Displacement.apply" =>
        /\ ret.shape = im.shape
        /\ im = im0
        /\ Rank(im) = 1 =>
            \A i \in 0..(im.shape[1] - 1) :
                Elem1(ret, i) = Elem1(im, Clamp(i + t.delta[1], 0, im.shape[1] - 1))
        /\ Rank(im) = 2 =>
            \A i \in 0..(im.shape[1] - 1) : \A j \in 0..(im.shape[2] - 1) :
                Elem2(ret, i, j) = Elem2(im, Clamp(i + t.delta[1], 0, im.shape[1] - 1),
                                             Clamp(j + t.delta[2], 0, im.shape[2] - 1))

\* A rank-2 image moved along both axes, with replication at a border.
C10_Witness ==
    /\ pc = "Displacement.apply"
    /\ Rank(im) = 2
    /\ t.delta[1] # 0 /\ t.delta[2] # 0
    /\ ret # im

====
